---- MODULE Spec2Model ----
(***************************************************************************)
(* Model of notebooks/fra_data_pull.ipynb: a paginated fetch of the FRA    *)
(* accident dataset, a row filter (cause-code exclusion, projection to 21  *)
(* columns, ten-year recency window) and a CSV export.                     *)
(*                                                                         *)
(* A JSON record is a function from the field names it carries to strings. *)
(* A DataFrame is [columns, index, rows, datetime]: the column labels in   *)
(* order, the row labels, one function columns -> value per row, and the   *)
(* set of columns of datetime dtype.                                       *)
(* A timestamp is a number of hours since 1970-01-01T00:00.                *)
(***************************************************************************)
EXTENDS Integers, Sequences, FiniteSets, TLC

VARIABLES
    dataset,                      \* the server's backing dataset (stable)
    primary_accident_cause_codes, \* the imported code -> label lookup
    limit, offset, all_data,      \* fetch cell
    status,                       \* status_code of the last response
    requests,                     \* log of the requests issued: [offset, status, data]
    df,                           \* pd.DataFrame(all_data)
    non_track_accidents_df,       \* the filtered frame
    today, ten_years_ago,         \* datetime.today() and the cutoff
    printed,                      \* <<date_min, date_max>> of the print, or <<>>
    file,                         \* content of non_track_accidents_last_10_years.csv
    file_before,                  \* its content before the run
    exports,                      \* number of times the export cell has run
    pc, error

vars == <<dataset, primary_accident_cause_codes, limit, offset, all_data, status,
          requests, df, non_track_accidents_df, today, ten_years_ago, printed,
          file, file_before, exports, pc, error>>

----------------------------------------------------------------------------
(* Bounds of the model *)

MaxN == 3          \* records in the backing dataset
MaxLimit == 3      \* page sizes tried: 1..MaxLimit
MaxExports == 2    \* runs of the export cell

----------------------------------------------------------------------------
(* Values *)

TicksPerDay == 24  \* a timestamp counts hours

NaN == "<NaN>"     \* pandas' missing value in an object column
NaT == -1          \* pandas' missing value in a datetime column
NoFrame == [columns |-> <<>>, index |-> <<>>, rows |-> <<>>, datetime |-> {}]

Range(s) == {s[i] : i \in DOMAIN s}

RECURSIVE Select(_, _)
\* the subsequence of the elements of s that are in the set keep
Select(s, keep) ==
    IF s = <<>> THEN <<>>
    ELSE IF s[1] \in keep THEN <<s[1]>> \o Select(Tail(s), keep)
         ELSE Select(Tail(s), keep)

\* the positions 1..n that are in the set keep, in increasing order
Positions(n, keep) == Select([i \in 1..n |-> i], keep)

Min(a, b) == IF a <= b THEN a ELSE b

----------------------------------------------------------------------------
(* Column lists *)

features_to_analyze ==
    << "reportingrailroadcode", "accidentnumber", "date", "time", "accidenttype",
       "hazmatreleasedcars", "station", "stateabbr", "temperature",
       "visibility_code", "visibility", "weathercondition", "tracktype",
       "equipmenttype", "trainspeed", "equipmentdamagecost", "trackdamagecost",
       "totaldamagecost", "primaryaccidentcausecode", "latitude", "longitude" >>

\* The key order of the endpoint's JSON objects: the projected fields in
\* another order, among fields the notebook does not keep.
ApiFields ==
    << "accidentnumber", "reportingrailroadcode", "reportingrailroadname", "date",
       "time", "accidenttype", "hazmatreleasedcars", "station", "county",
       "stateabbr", "temperature", "visibility_code", "visibility",
       "weathercondition", "tracktype", "equipmenttype", "trainspeed",
       "primaryaccidentcausecode", "equipmentdamagecost", "trackdamagecost",
       "totaldamagecost", "latitude", "longitude" >>

----------------------------------------------------------------------------
(* Calendar arithmetic of datetime / pandas timestamps *)

\* days from 1970-01-01 to the civil date y-m-d (proleptic Gregorian)
DaysFromCivil(y, m, d) ==
    LET yy  == IF m <= 2 THEN y - 1 ELSE y
        era == yy \div 400
        yoe == yy - era * 400
        mp  == IF m > 2 THEN m - 3 ELSE m + 9
        doy == (153 * mp + 2) \div 5 + d - 1
        doe == yoe * 365 + yoe \div 4 - yoe \div 100 + doy
    IN  era * 146097 + doe - 719468

\* the civil date <<y, m, d>> of a day number
CivilFromDays(z0) ==
    LET z   == z0 + 719468
        era == z \div 146097
        doe == z - era * 146097
        yoe == (doe - doe \div 1460 + doe \div 36524 - doe \div 146096) \div 365
        doy == doe - (365 * yoe + yoe \div 4 - yoe \div 100)
        mp  == (5 * doy + 2) \div 153
        d   == doy - (153 * mp + 2) \div 5 + 1
        m   == IF mp < 10 THEN mp + 3 ELSE mp - 9
        y   == yoe + era * 400
    IN  << IF m <= 2 THEN y + 1 ELSE y, m, d >>

\* the timestamp of a date and an hour of the day
Timestamp(y, m, d, hh) == DaysFromCivil(y, m, d) * TicksPerDay + hh

\* timedelta(days=365*10), in hours
timedelta == (365 * 10) * TicksPerDay

\* The date texts the endpoint serves (floating timestamps), lexed to
\* <<year, month, day, hour>>; any other text is not a date.
DateTexts ==
    { "2014-11-15T00:00:00.000", "2014-11-16T00:00:00.000", "2023-11-13T00:00:00.000" }

Lex(s) ==
    CASE s = "2014-11-15T00:00:00.000" -> <<2014, 11, 15, 0>>
      [] s = "2014-11-16T00:00:00.000" -> <<2014, 11, 16, 0>>
      [] s = "2023-11-13T00:00:00.000" -> <<2023, 11, 13, 0>>

Parsable(s) == s = NaN \/ s \in DateTexts

\* pd.to_datetime of one cell: a missing value becomes NaT
to_datetime(s) ==
    IF s = NaN THEN NaT
    ELSE LET t == Lex(s) IN Timestamp(t[1], t[2], t[3], t[4])

\* Timestamp.date(), which maps NaT to NaT
DateOf(ts) == IF ts = NaT THEN <<>> ELSE CivilFromDays(ts \div TicksPerDay)

\* the values datetime.today() can take: the run's date, at midnight or at noon
Todays == { Timestamp(2024, 11, 13, hh) : hh \in {0, 12} }

----------------------------------------------------------------------------
(* The endpoint and the lookup module *)

ApiFieldSet == Range(ApiFields)

\* one JSON object of the endpoint; the keys in absent are omitted (null fields)
Record(id, code, date, absent) ==
    [f \in ApiFieldSet \ absent |->
        CASE f = "accidentnumber" -> id
          [] f = "primaryaccidentcausecode" -> code
          [] f = "date" -> date
          [] OTHER -> "x"]

Shapes ==
    { [code |-> "T001", date |-> "2023-11-13T00:00:00.000", absent |-> {}],
      [code |-> "X200", date |-> "2014-11-16T00:00:00.000", absent |-> {}],
      [code |-> "X200", date |-> "2014-11-15T00:00:00.000", absent |-> {}],
      [code |-> "X201", date |-> "2023-11-13T00:00:00.000", absent |-> {"station"}],
      [code |-> "X201", date |-> "2023-11-13T00:00:00.000",
       absent |-> {"primaryaccidentcausecode"}],
      [code |-> "X200", date |-> "2023-11-13T00:00:00.000", absent |-> {"date"}],
      [code |-> "X201", date |-> "n/a", absent |-> {}] }

\* the datasets: up to MaxN records, numbered by their position
Datasets ==
    UNION { { [i \in 1..n |-> Record(ToString(i), sh[i].code, sh[i].date, sh[i].absent)] :
              sh \in [1..n -> Shapes] } : n \in 0..MaxN }

\* the contents primary_accident_cause_codes may have: code -> label
Lookups ==
    { [c \in {"T001"} |-> "X200"],
      [c \in {"T001", "X201"} |-> "Track geometry defect"] }

FailStatuses == {503}

\* the page a consistent server returns for $limit=l&$offset=o
Page(o, l) == SubSeq(dataset, o + 1, Min(o + l, Len(dataset)))

\* the file when absent, and as an earlier run left it (the state a run starts in)
NoFile == [header |-> <<>>, rows |-> <<>>]
StaleFile == [header |-> <<"stale">>, rows |-> << <<"0">> >>]

----------------------------------------------------------------------------
(* pandas operations *)

\* pd.DataFrame(data, columns=<the endpoint's schema>)
DataFrame_schema(data) ==
    [ columns  |-> ApiFields,
      index    |-> [i \in DOMAIN data |-> i - 1],
      rows     |-> [i \in DOMAIN data |->
                       [f \in ApiFieldSet |->
                           IF f \in DOMAIN data[i] THEN data[i][f] ELSE NaN]],
      datetime |-> {} ]

\* pd.DataFrame(list of dicts): the union of the keys as columns, in key
\* order; a key a record lacks is NaN in its row
DataFrame(data) ==
    LET present == UNION { DOMAIN data[i] : i \in DOMAIN data }
    IN  [ columns  |-> Select(ApiFields, present),
          index    |-> [i \in DOMAIN data |-> i - 1],
          rows     |-> [i \in DOMAIN data |->
                           [f \in present |->
                               IF f \in DOMAIN data[i] THEN data[i][f] ELSE NaN]],
          datetime |-> {} ]

\* frame[mask]: the rows at the positions in keep, labels kept
Rows(frame, keep) ==
    LET pos == Positions(Len(frame.rows), keep)
    IN  [ columns  |-> frame.columns,
          index    |-> [k \in DOMAIN pos |-> frame.index[pos[k]]],
          rows     |-> [k \in DOMAIN pos |-> frame.rows[pos[k]]],
          datetime |-> frame.datetime ]

\* Series.isin(values); NaN is in no list of codes
isin(v, values) == v # NaN /\ v \in values

\* frame[cols]: the listed columns, in the order listed
Project(frame, cols) ==
    [ columns  |-> cols,
      index    |-> frame.index,
      rows     |-> [k \in DOMAIN frame.rows |-> [f \in Range(cols) |-> frame.rows[k][f]]],
      datetime |-> frame.datetime \cap Range(cols) ]

\* frame['date'] = pd.to_datetime(frame['date'])
ConvertDate(frame) ==
    [ frame EXCEPT !.rows = [k \in DOMAIN frame.rows |->
                                [frame.rows[k] EXCEPT !["date"] = to_datetime(@)]],
                   !.datetime = @ \cup {"date"} ]

\* a > b on timestamps
Ge_strict(a, b) == a # NaT /\ b # NaT /\ a > b

\* a >= b on timestamps: a comparison with NaT is False
Ge(a, b) == a # NaT /\ b # NaT /\ a >= b

\* Series.min() and Series.max() of the date column: NaT when there is no value
DateValues(frame) == { frame.rows[k]["date"] : k \in DOMAIN frame.rows } \ {NaT}
date_min(frame) ==
    IF DateValues(frame) = {} THEN NaT
    ELSE CHOOSE t \in DateValues(frame) : \A u \in DateValues(frame) : t <= u
date_max(frame) ==
    IF DateValues(frame) = {} THEN NaT
    ELSE CHOOSE t \in DateValues(frame) : \A u \in DateValues(frame) : t >= u

\* the text of one cell: a missing value is an empty cell; a timestamp is
\* written as its date, and with its hour unless the whole column is at midnight
Cell(frame, k, f) ==
    LET v == frame.rows[k][f]
    IN  IF f \in frame.datetime
        THEN IF v = NaT THEN <<>>
             ELSE IF \A t \in DateValues(frame) : t % TicksPerDay = 0
                  THEN DateOf(v)
                  ELSE DateOf(v) \o << v % TicksPerDay >>
        ELSE IF v = NaN THEN "" ELSE v

\* DataFrame.to_csv(path, mode='a', index=...): the frame, header included,
\* written after what the file holds
to_csv_append(old, frame, index) ==
    LET head == (IF index THEN <<"">> ELSE <<>>) \o frame.columns
        body == [k \in DOMAIN frame.rows |->
                    (IF index THEN <<ToString(frame.index[k])>> ELSE <<>>)
                    \o [c \in DOMAIN frame.columns |-> Cell(frame, k, frame.columns[c])]]
    IN  IF old.header = <<>>
        THEN [header |-> head, rows |-> body]
        ELSE [header |-> old.header, rows |-> (old.rows \o <<head>>) \o body]

\* DataFrame.to_csv(path, index=...): the file it writes, replacing `old`
to_csv(old, frame, index) ==
    [ header |-> (IF index THEN <<"">> ELSE <<>>) \o frame.columns,
      rows   |-> [k \in DOMAIN frame.rows |->
                    (IF index THEN <<ToString(frame.index[k])>> ELSE <<>>)
                    \o [c \in DOMAIN frame.columns |-> Cell(frame, k, frame.columns[c])]] ]

----------------------------------------------------------------------------
(* The notebook *)

Init ==
    /\ dataset \in Datasets
    /\ primary_accident_cause_codes \in Lookups
    /\ limit \in 1..MaxLimit
    /\ offset = 0
    /\ all_data = <<>>
    /\ status = 0
    /\ requests = <<>>
    /\ df = NoFrame
    /\ non_track_accidents_df = NoFrame
    /\ today = NaT
    /\ ten_years_ago = NaT
    /\ printed = <<>>
    /\ file = StaleFile
    /\ file_before = file
    /\ exports = 0
    /\ pc = "fetch"
    /\ error = "none"

\* `if not data`: the page that ends the loop
EndOfData_short(data, l) == Len(data) < l
EndOfData(data, l) == data = <<>>

\* all_data.extend(data)
extend_front(acc, data) == data \o acc
extend(acc, data) == acc \o data

\* offset += limit
NextOffset_page(o, l) == o + 1
NextOffset(o, l) == o + l

\* one iteration of `while True` whose response is 200 with records
FetchPage ==
    /\ pc = "fetch"
    /\ LET data == Page(offset, limit)
       IN  /\ ~EndOfData(data, limit)
           /\ status' = 200
           /\ requests' = Append(requests, [offset |-> offset, status |-> 200, data |-> data])
           /\ all_data' = extend(all_data, data)
           /\ offset' = NextOffset(offset, limit)
    /\ UNCHANGED <<dataset, file_before, primary_accident_cause_codes, limit, df,
                   non_track_accidents_df, today, ten_years_ago, printed, file,
                   exports, pc, error>>

\* the iteration whose response is 200 with no record: break, then build df
FetchEmpty ==
    /\ pc = "fetch"
    /\ EndOfData(Page(offset, limit), limit)
    /\ status' = 200
    /\ requests' = Append(requests, [offset |-> offset, status |-> 200,
                                     data |-> Page(offset, limit)])
    /\ df' = DataFrame(all_data)
    /\ pc' = "filter"
    /\ UNCHANGED <<dataset, file_before, primary_accident_cause_codes, limit, offset, all_data,
                   non_track_accidents_df, today, ten_years_ago, printed, file,
                   exports, error>>

\* a failure that discards what was accumulated
FetchFail_clear ==
    /\ pc = "fetch"
    /\ \E s \in FailStatuses :
          /\ status' = s
          /\ requests' = Append(requests, [offset |-> offset, status |-> s, data |-> <<>>])
    /\ all_data' = <<>>
    /\ df' = DataFrame(<<>>)
    /\ pc' = "filter"
    /\ UNCHANGED <<dataset, file_before, primary_accident_cause_codes, limit, offset,
                   non_track_accidents_df, today, ten_years_ago, printed, file,
                   exports, error>>

\* a failure that raises (response.raise_for_status())
FetchFail_raise ==
    /\ pc = "fetch"
    /\ \E s \in FailStatuses :
          /\ status' = s
          /\ requests' = Append(requests, [offset |-> offset, status |-> s, data |-> <<>>])
    /\ pc' = "crashed"
    /\ error' = "HTTPError"
    /\ UNCHANGED <<dataset, file_before, primary_accident_cause_codes, limit, offset,
                   all_data, df, non_track_accidents_df, today, ten_years_ago,
                   printed, file, exports>>

\* the iteration whose response is not 200: print, break, then build df
FetchFail ==
    /\ pc = "fetch"
    /\ \E s \in FailStatuses :
          /\ status' = s
          /\ requests' = Append(requests, [offset |-> offset, status |-> s, data |-> <<>>])
    /\ df' = DataFrame(all_data)
    /\ pc' = "filter"
    /\ UNCHANGED <<dataset, file_before, primary_accident_cause_codes, limit, offset, all_data,
                   non_track_accidents_df, today, ten_years_ago, printed, file,
                   exports, error>>

\* list(primary_accident_cause_codes.values())
codes_list_values ==
    { primary_accident_cause_codes[c] : c \in DOMAIN primary_accident_cause_codes }

\* list(primary_accident_cause_codes.keys())
codes_list == DOMAIN primary_accident_cause_codes

\* df[~df['primaryaccidentcausecode'].isin(codes_list)]
Excluded(frame) ==
    Rows(frame, { k \in DOMAIN frame.rows :
                    ~isin(frame.rows[k]["primaryaccidentcausecode"], codes_list) })

\* df['primaryaccidentcausecode'] and [features_to_analyze] raise no KeyError
HasColumns(frame) ==
    /\ "primaryaccidentcausecode" \in Range(frame.columns)
    /\ Range(features_to_analyze) \subseteq Range(frame.columns)

\* the filter cell, when every column it names is a column of df
RowFilter ==
    /\ pc = "filter"
    /\ HasColumns(df)
    /\ non_track_accidents_df' = Project(Excluded(df), features_to_analyze)
    /\ pc' = "recency"
    /\ UNCHANGED <<dataset, file_before, primary_accident_cause_codes, limit, offset, all_data,
                   status, requests, df, today, ten_years_ago, printed, file,
                   exports, error>>

\* the filter cell, when df lacks a column: KeyError at line 125 (before any
\* assignment) or at line 131 (after the exclusion was assigned)
RowFilterKeyError ==
    /\ pc = "filter"
    /\ ~HasColumns(df)
    /\ non_track_accidents_df' =
          IF "primaryaccidentcausecode" \in Range(df.columns)
          THEN Excluded(df) ELSE non_track_accidents_df
    /\ pc' = "crashed"
    /\ error' = "KeyError"
    /\ UNCHANGED <<dataset, file_before, primary_accident_cause_codes, limit, offset, all_data,
                   status, requests, df, today, ten_years_ago, printed, file, exports>>

\* non_track_accidents_df[non_track_accidents_df['date'] >= ten_years_ago]
Recent(frame, cutoff) ==
    Rows(frame, { k \in DOMAIN frame.rows : Ge(frame.rows[k]["date"], cutoff) })

\* pd.to_datetime(frame['date']) raises no error
DatesParse(frame) ==
    \A k \in DOMAIN frame.rows : Parsable(frame.rows[k]["date"])

\* the recency cell, when every date parses
RecencyFilter ==
    /\ pc = "recency"
    /\ DatesParse(non_track_accidents_df)
    /\ \E now \in Todays :
          LET cutoff == now - timedelta
              recent == Recent(ConvertDate(non_track_accidents_df), cutoff)
          IN  /\ today' = now
              /\ ten_years_ago' = cutoff
              /\ non_track_accidents_df' = recent
              /\ printed' = << DateOf(date_min(recent)), DateOf(date_max(recent)) >>
    /\ pc' = "export"
    /\ UNCHANGED <<dataset, file_before, primary_accident_cause_codes, limit, offset, all_data,
                   status, requests, df, file, exports, error>>

\* the recency cell, when a date does not parse: pd.to_datetime raises
RecencyParseError ==
    /\ pc = "recency"
    /\ ~DatesParse(non_track_accidents_df)
    /\ pc' = "crashed"
    /\ error' = "ValueError"
    /\ UNCHANGED <<dataset, file_before, primary_accident_cause_codes, limit, offset, all_data,
                   status, requests, df, non_track_accidents_df, today,
                   ten_years_ago, printed, file, exports>>

\* the export cell; it can be run again once it has run
Export ==
    /\ pc \in {"export", "done"}
    /\ exports < MaxExports
    /\ file' = to_csv(file, non_track_accidents_df, FALSE)
    /\ exports' = exports + 1
    /\ pc' = "done"
    /\ UNCHANGED <<dataset, file_before, primary_accident_cause_codes, limit, offset, all_data,
                   status, requests, df, non_track_accidents_df, today,
                   ten_years_ago, printed, error>>

Next ==
    \/ FetchPage
    \/ FetchEmpty
    \/ FetchFail
    \/ RowFilter
    \/ RowFilterKeyError
    \/ RecencyFilter
    \/ RecencyParseError
    \/ Export

Spec == Init /\ [][Next]_vars


----------------------------------------------------------------------------
(* Properties *)

LoopEnded == pc # "fetch"
AllOk == \A i \in DOMAIN requests : requests[i].status = 200
Failed == LoopEnded /\ status # 200
Ceil(n, p) == (n + p - 1) \div p
Code == "primaryaccidentcausecode"
Ids(rows) == { rows[k]["accidentnumber"] : k \in DOMAIN rows }

RECURSIVE Concat(_)
Concat(pages) == IF pages = <<>> THEN <<>> ELSE Head(pages) \o Concat(Tail(pages))

\* C1: when the loop ends after success responses only, the accumulated
\* records are exactly the records of the dataset, each once, in the
\* dataset's order, whatever the page size.
C1_PaginationLossless ==
    (LoopEnded /\ AllOk) =>
        /\ all_data = dataset
        /\ Cardinality(Ids(all_data)) = Len(dataset)

C1_Witness ==
    /\ LoopEnded /\ AllOk
    /\ Len(dataset) = 3 /\ limit = 2 /\ Len(requests) = 3

\* C2: with success responses only the loop issues exactly ceil(N/P) + 1
\* requests; the last one, and no other, returns an empty page, and while the
\* loop runs every page so far was non-empty.
C2_RequestCount ==
    /\ (LoopEnded /\ AllOk) =>
          /\ Len(requests) = Ceil(Len(dataset), limit) + 1
          /\ requests[Len(requests)].data = <<>>
          /\ \A i \in 1..(Len(requests) - 1) : requests[i].data # <<>>
    /\ ~LoopEnded =>
          \A i \in DOMAIN requests : requests[i].status = 200 /\ requests[i].data # <<>>

C2_Witness ==
    /\ LoopEnded /\ AllOk
    /\ Len(dataset) = 3 /\ limit = 2 /\ Len(requests) = 3
    /\ Len(requests[2].data) = 1

\* C3: a non-success status at request K ends the loop at once: the failing
\* iteration changes neither the accumulated records nor the offset, no request
\* follows it, and the records held are the concatenation of the pages of
\* requests 1..K-1.
C3_AbortKeepsPartial ==
    /\ [](Failed =>
            LET K == Len(requests)
            IN  /\ requests[K].status # 200
                /\ \A i \in 1..(K - 1) : requests[i].status = 200
                /\ all_data = Concat([i \in 1..(K - 1) |-> requests[i].data])
                /\ offset = requests[K].offset)
    /\ [][(pc = "fetch" /\ status' # 200) =>
            (all_data' = all_data /\ offset' = offset /\ pc' = "filter")]_vars
    /\ [][Failed => (requests' = requests /\ all_data' = all_data)]_vars

C3_Witness ==
    /\ Failed
    /\ Len(requests) = 3
    /\ Len(all_data) = 2

\* C4: no row of the filtered dataset, and no exported row, has a cause code
\* that is a key of the lookup; the rows the exclusion drops are exactly those
\* whose code is a key (the labels play no part).
CodeColumn == CHOOSE c \in DOMAIN features_to_analyze : features_to_analyze[c] = Code
C4_ExclusionByKeys ==
    /\ \A k \in DOMAIN non_track_accidents_df.rows :
          non_track_accidents_df.rows[k][Code] \notin DOMAIN primary_accident_cause_codes
    /\ exports > 0 =>
          \A k \in DOMAIN file.rows :
              file.rows[k][CodeColumn] \notin DOMAIN primary_accident_cause_codes
    /\ pc = "recency" =>
          Ids(non_track_accidents_df.rows) =
              { all_data[i]["accidentnumber"] : i \in
                  { j \in DOMAIN all_data :
                      Code \in DOMAIN all_data[j] =>
                          all_data[j][Code] \notin DOMAIN primary_accident_cause_codes } }

C4_Witness ==
    /\ pc = "done"
    /\ Len(file.rows) >= 1
    /\ \E i \in DOMAIN all_data :
          Code \in DOMAIN all_data[i]
          /\ all_data[i][Code] \in DOMAIN primary_accident_cause_codes

\* what the filter is meant to keep of a fetched record, and as which row
NotExcluded(rec) ==
    Code \in DOMAIN rec => rec[Code] \notin DOMAIN primary_accident_cause_codes
InWindow(rec) == "date" \in DOMAIN rec /\ to_datetime(rec["date"]) >= ten_years_ago
Kept(rec) == NotExcluded(rec) /\ InWindow(rec)
ExpectedRow(rec) ==
    [f \in Range(features_to_analyze) |->
        IF f = "date" THEN to_datetime(rec["date"])
        ELSE IF f \in DOMAIN rec THEN rec[f] ELSE NaN]
ExpectedRows ==
    LET kept == SelectSeq(all_data, Kept)
    IN  [k \in DOMAIN kept |-> ExpectedRow(kept[k])]
ExpectedFile ==
    to_csv(NoFile, [columns |-> features_to_analyze, index |-> <<>>,
                    rows |-> ExpectedRows, datetime |-> {"date"}], FALSE)

\* C5: with D the date of the run, a non-excluded record dated D - 3650 days
\* is in the filtered dataset and one dated D - 3651 days is not, at whatever
\* time of day the run takes place.
C5_BoundaryByDate ==
    pc \in {"export", "done"} =>
        LET D == today \div TicksPerDay
        IN  \A i \in DOMAIN all_data :
                LET rec == all_data[i]
                IN  (NotExcluded(rec) /\ "date" \in DOMAIN rec) =>
                        LET t == to_datetime(rec["date"])
                        IN  /\ t = (D - 3650) * TicksPerDay =>
                                 rec["accidentnumber"] \in Ids(non_track_accidents_df.rows)
                            /\ t \div TicksPerDay = D - 3651 =>
                                 rec["accidentnumber"] \notin Ids(non_track_accidents_df.rows)

\* C6: the filtered dataset is exactly the subsequence, in fetch order, of the
\* fetched records whose code is not excluded and whose date is at or after
\* the cutoff, projected to the 21 columns.
C6_FilteredIsSubsequence ==
    pc \in {"export", "done"} =>
        /\ non_track_accidents_df.columns = features_to_analyze
        /\ non_track_accidents_df.rows = ExpectedRows

C6_Witness ==
    /\ pc = "export"
    /\ Len(all_data) = 3
    /\ Len(non_track_accidents_df.rows) = 1
    /\ \E i \in DOMAIN all_data : ~NotExcluded(all_data[i])
    /\ \E i \in DOMAIN all_data : NotExcluded(all_data[i]) /\ ~InWindow(all_data[i])

\* C7: the exported file has the 21 column names, in the fixed order, as its
\* header and no index column, one row of 21 cells per filtered record, and
\* running the export again leaves the file as the first export wrote it.
C7_ExportOverwrites ==
    /\ [](pc = "done" =>
            /\ file.header = features_to_analyze
            /\ Len(file.header) = 21
            /\ Len(file.rows) = Len(non_track_accidents_df.rows)
            /\ \A k \in DOMAIN file.rows : Len(file.rows[k]) = 21)
    /\ [][(pc = "done" /\ exports' = exports + 1) => file' = file]_vars

C7_Witness ==
    /\ pc = "done"
    /\ exports = 2
    /\ file_before = StaleFile
    /\ Len(file.rows) = 2

\* C8 (as claimed): after a non-success status at any request, also when
\* nothing was accumulated, the run does not stop before the export: the
\* filter, recency and export cells each find the condition under which they
\* run without error, and the export writes the filtered rows of the records
\* accumulated before the failure.  (The cells run one after the other and
\* the run is finite, so this is what "eventually exports" comes to.)
C8_FailureStillExports ==
    Failed =>
        /\ pc # "crashed"
        /\ pc = "filter" => HasColumns(df)
        /\ pc = "recency" => DatesParse(non_track_accidents_df)
        /\ pc = "export" => exports < MaxExports
        /\ pc = "done" => file = ExpectedFile

\* the filter and recency cells can run on what was accumulated: every
\* projected column is carried by some record and the dates they parse do parse
CanFilter ==
    /\ Range(features_to_analyze) \subseteq UNION { DOMAIN all_data[i] : i \in DOMAIN all_data }
    /\ \A i \in DOMAIN all_data :
          (NotExcluded(all_data[i]) /\ "date" \in DOMAIN all_data[i]) =>
              all_data[i]["date"] \in DateTexts

\* C8 (amended): after a non-success status the run goes on into the filter
\* cell with the partial data; when that cell and the recency cell can run on
\* it, the export eventually writes the filtered rows of the records
\* accumulated before the failure; otherwise (in particular when nothing was
\* accumulated) the run stops with an error and never exports.
C8_FailureExportsIfFilterable ==
    /\ (Failed /\ CanFilter) =>
          /\ pc # "crashed"
          /\ pc = "filter" => HasColumns(df)
          /\ pc = "recency" => DatesParse(non_track_accidents_df)
          /\ pc = "export" => exports < MaxExports
          /\ pc = "done" => file = ExpectedFile
    /\ (Failed /\ ~CanFilter) =>
          /\ pc \in {"filter", "recency", "crashed"}
          /\ pc = "recency" => ~DatesParse(non_track_accidents_df)
          /\ exports = 0 /\ file = file_before
    /\ (Failed /\ all_data = <<>>) =>
          /\ pc \in {"filter", "crashed"}
          /\ pc = "filter" => ~HasColumns(df)

C8_Witness ==
    /\ Failed
    /\ Len(requests) = 2
    /\ pc = "done"
    /\ Len(file.rows) >= 1

\* C9 (as claimed): the offset of every request equals the number of records
\* fetched before it, and the offset the next request would send equals the
\* length of the accumulated collection.
C9_OffsetIsRunningTotal ==
    /\ \A i \in DOMAIN requests :
          requests[i].offset = Len(Concat([j \in 1..(i - 1) |-> requests[j].data]))
    /\ pc = "fetch" => offset = Len(all_data)

FullPages == \A i \in DOMAIN requests : requests[i].data # <<>> => Len(requests[i].data) = limit

\* C9 (amended): the offset of the i-th request is the page size times i - 1,
\* the number of non-empty pages received before it; the offset is never less
\* than the number of records accumulated and equals it exactly as long as
\* every non-empty page was full; it starts at 0 and grows by the page size
\* after, and only after, each successful non-empty page.
C9_OffsetCountsPages ==
    /\ [](/\ \A i \in DOMAIN requests : requests[i].offset = limit * (i - 1)
          /\ offset = limit * Cardinality({ i \in DOMAIN requests : requests[i].data # <<>> })
          /\ offset >= Len(all_data)
          /\ (offset = Len(all_data)) <=> FullPages)
    /\ [][offset' # offset =>
            (offset' = offset + limit /\ status' = 200 /\ Len(all_data') > Len(all_data))]_vars
    /\ [][(pc = "fetch" /\ status' = 200 /\ Len(all_data') > Len(all_data)) =>
            offset' = offset + limit]_vars

C9_Witness ==
    /\ pc = "fetch"
    /\ limit = 2
    /\ Len(requests) = 2
    /\ offset = 4
    /\ Len(all_data) = 3

MissingSomewhere ==
    \E i \in DOMAIN all_data : ~(Range(features_to_analyze) \subseteq DOMAIN all_data[i])
MissingEverywhere ==
    ~(Range(features_to_analyze) \subseteq UNION { DOMAIN all_data[i] : i \in DOMAIN all_data })

\* C10 (as claimed): if any fetched record lacks a projected column, the run
\* fails at the filter cell with a lookup error, nothing is null-filled, the
\* export is not reached and the file is as it was.
C10_MissingInAnyRecordIsFatal ==
    (pc \notin {"fetch", "filter"} /\ MissingSomewhere) =>
        (pc = "crashed" /\ error = "KeyError" /\ exports = 0 /\ file = file_before)

\* C10 (amended): a projected column carried by no fetched record (as when no
\* record was fetched) is fatal: the filter cell fails with a lookup error,
\* the export is not reached and the file is as it was; the filter cell fails
\* in that case only, and a column some records carry is null-filled in the
\* rows of the records that lack it.
C10_MissingInEveryRecordIsFatal ==
    /\ (pc \notin {"fetch", "filter"} /\ MissingEverywhere) =>
          (pc = "crashed" /\ error = "KeyError" /\ exports = 0 /\ file = file_before)
    /\ (pc = "crashed" /\ error = "KeyError") => MissingEverywhere
    /\ pc = "recency" =>
          \A k \in DOMAIN non_track_accidents_df.rows :
              \E i \in DOMAIN all_data :
                  \A f \in Range(features_to_analyze) :
                      non_track_accidents_df.rows[k][f] =
                          IF f \in DOMAIN all_data[i] THEN all_data[i][f] ELSE NaN

C10_Witness ==
    /\ pc = "crashed"
    /\ error = "KeyError"
    /\ Len(all_data) = 2
    /\ AllOk

====
